---- MODULE Spec2Model ----
(***************************************************************************)
(* Profile resolution and SSID detection of WiFi-Auto-Auth                 *)
(* (src/network_utils.py), and the commands of src/wifi_auto_login.py      *)
(* that use them: login, network detection and the setup wizard.           *)
(*                                                                         *)
(* A Python str is a sequence of one-character strings, so that the        *)
(* parsing the detector does (substring tests, strip, split, regular       *)
(* expressions) is computed on the text itself.  Python's None is the      *)
(* one-element sequence <<"None">>, which no text equals because every     *)
(* element of a text is a single character.  A call's outcome is a record: *)
(* Return(v) or Raise(e).                                                  *)
(***************************************************************************)
EXTENDS Integers, Sequences, FiniteSets, TLC

VARIABLES config_file, platform, call, save, login_attempts

vars == <<config_file, platform, call, save, login_attempts>>

None == <<"None">>

Return(v) == [raised |-> FALSE, value |-> v]

Raise(e) == [raised |-> TRUE, exc |-> e]

(***************************************************************************)
(* String literals of the source.                                          *)
(***************************************************************************)
S_Unknown == <<"U","n","k","n","o","w","n">>
S_0 == <<"0">>
S_legacy == <<"l","e","g","a","c","y">>
S_default == <<"d","e","f","a","u","l","t">>
S_Legacy_configuration == <<"L","e","g","a","c","y"," ","c","o","n","f","i","g","u","r","a","t","i","o","n">>
S_SSID == <<"S","S","I","D">>
S_BSSID == <<"B","S","S","I","D">>
S_SSID_colon == <<"S","S","I","D",":">>
S_ESSID_colon == <<"E","S","S","I","D",":">>
S_yes_colon == <<"y","e","s",":">>
S_Current_WiFi_Network == <<"C","u","r","r","e","n","t"," ","W","i","-","F","i"," ","N","e","t","w","o","r","k",":">>
S_not_associated == <<"Y","o","u"," ","a","r","e"," ","n","o","t"," ","a","s","s","o","c","i","a","t","e","d"," ","w","i","t","h"," ","a","n"," ","A","i","r","P","o","r","t"," ","n","e","t","w","o","r","k",".">>

(***************************************************************************)
(* Python str operations used by the detector.                             *)
(***************************************************************************)
Whitespace == {" ", "\t", "\n", "\r"}

\* s[i:] starts with sub
StartsWithAt(sub, s, i) ==
  /\ i + Len(sub) - 1 <= Len(s)
  /\ \A j \in 1..Len(sub) : s[i + j - 1] = sub[j]

\* sub in s
Contains(sub, s) == \E i \in 1..(Len(s) + 1) : StartsWithAt(sub, s, i)

\* index of the first occurrence of sub in s, 0 when there is none
Find(sub, s) ==
  IF Contains(sub, s)
  THEN CHOOSE i \in 1..(Len(s) + 1) :
         /\ StartsWithAt(sub, s, i)
         /\ \A k \in 1..(i - 1) : ~StartsWithAt(sub, s, k)
  ELSE 0

\* s[i:] (1-based)
From(s, i) == SubSeq(s, i, Len(s))

\* s.strip()
Strip(s) ==
  LET keep == {i \in 1..Len(s) : s[i] \notin Whitespace}
  IN  IF keep = {} THEN <<>>
      ELSE SubSeq(s, CHOOSE i \in keep : \A k \in keep : i <= k,
                     CHOOSE i \in keep : \A k \in keep : i >= k)

RECURSIVE Split(_, _)
\* s.split(sep): the list of pieces between the occurrences of sep
Split(s, sep) ==
  LET i == Find(sep, s)
  IN  IF i = 0 THEN <<s>>
      ELSE <<SubSeq(s, 1, i - 1)>> \o Split(From(s, i + Len(sep)), sep)

\* s.split(sep)[-1]
SplitLast(s, sep) == LET parts == Split(s, sep) IN parts[Len(parts)]

\* s.split(sep, 1)[1], for s that contains sep
SplitOnce1(s, sep) == From(s, Find(sep, s) + Len(sep))

\* the number of leading whitespace characters of s[i:]
RECURSIVE SkipSpace(_, _)
SkipSpace(s, i) ==
  IF i <= Len(s) /\ s[i] \in Whitespace THEN 1 + SkipSpace(s, i + 1) ELSE 0

(***************************************************************************)
(* re.search(r'SSID\s*:\s*(.+)', s): group 1 of the leftmost match, None   *)
(* when nothing matches.  At a start position the two \s* are greedy; when *)
(* the second one has eaten the rest of the text it gives one character    *)
(* back to (.+).                                                           *)
(***************************************************************************)
MatchSsidAt(s, i) ==
  IF ~StartsWithAt(S_SSID, s, i) THEN None
  ELSE LET c == i + 4 + SkipSpace(s, i + 4)
       IN  IF c > Len(s) \/ s[c] # ":" THEN None
           ELSE LET m == SkipSpace(s, c + 1)
                    g == c + 1 + m
                IN  IF g <= Len(s) THEN From(s, g)
                    ELSE IF m >= 1 THEN From(s, g - 1)
                    ELSE None

SearchSsid(s) ==
  LET hits == {i \in 1..Len(s) : MatchSsidAt(s, i) # None}
  IN  IF hits = {} THEN None
      ELSE MatchSsidAt(s, CHOOSE i \in hits : \A k \in hits : i <= k)

(***************************************************************************)
(* re.search of the iwconfig pattern: ESSID: then a double quote, a group  *)
(* of characters other than the double quote, and a double quote.  Group 1 *)
(* of the leftmost match, None when nothing matches.                       *)
(***************************************************************************)
MatchEssidAt(s, i) ==
  IF ~StartsWithAt(S_ESSID_colon \o <<"\"">>, s, i) THEN None
  ELSE LET rest == From(s, i + 7)
           q    == Find(<<"\"">>, rest)
       IN  IF q = 0 THEN None ELSE SubSeq(rest, 1, q - 1)

SearchEssid(s) ==
  LET hits == {i \in 1..Len(s) : MatchEssidAt(s, i) # None}
  IN  IF hits = {} THEN None
      ELSE MatchEssidAt(s, CHOOSE i \in hits : \A k \in hits : i <= k)

(***************************************************************************)
(* The outputs the external commands are given here.                       *)
(***************************************************************************)
SsidA == <<"a">>

SsidB == <<"b">>

SsidC == <<"c">>

W_connected == <<" "," ","S","S","I","D"," ",":"," ","a","\n"," "," ","B","S","S","I","D"," ",":"," ","c","\n">>
W_bssid_first == <<" "," ","B","S","S","I","D"," ",":"," ","c","\n"," "," ","S","S","I","D"," ",":"," ","b","\n">>
W_bssid_only == <<" "," ","B","S","S","I","D"," ",":"," ","c","\n">>
W_ssid_named_bssid == <<" "," ","S","S","I","D"," ",":"," ","B","S","S","I","D","\n"," "," ","B","S","S","I","D"," ",":"," ","c","\n">>
W_no_interface == <<"T","h","e","r","e"," ","i","s"," ","n","o"," ","w","i","r","e","l","e","s","s"," ","i","n","t","e","r","f","a","c","e","\n">>
M_current == <<"C","u","r","r","e","n","t"," ","W","i","-","F","i"," ","N","e","t","w","o","r","k",":"," ","a","\n">>
M_not_assoc == <<"Y","o","u"," ","a","r","e"," ","n","o","t"," ","a","s","s","o","c","i","a","t","e","d"," ","w","i","t","h"," ","a","n"," ","A","i","r","P","o","r","t"," ","n","e","t","w","o","r","k",".","\n">>
M_marker_not_assoc == <<"C","u","r","r","e","n","t"," ","W","i","-","F","i"," ","N","e","t","w","o","r","k",":"," ","Y","o","u"," ","a","r","e"," ","n","o","t"," ","a","s","s","o","c","i","a","t","e","d"," ","w","i","t","h"," ","a","n"," ","A","i","r","P","o","r","t"," ","n","e","t","w","o","r","k",".","\n">>
A_full == <<" "," ","B","S","S","I","D",":"," ","c","\n"," "," ","S","S","I","D",":"," ","a","\n">>
A_ssid == <<" "," ","S","S","I","D",":"," ","b","\n">>
A_off == <<"A","i","r","P","o","r","t",":"," ","O","f","f","\n">>
A_blank == <<" "," ","S","S","I","D",":"," ","\n">>
G_a == <<"a","\n">>
N_active == <<"n","o",":","b","\n","y","e","s",":","a","\n">>
N_inactive == <<"n","o",":","b","\n">>
N_blank == <<"y","e","s",":","\n">>
I_essid == <<"w","l","a","n","0"," ","E","S","S","I","D",":","\"","b","\"","\n">>
I_off == <<"w","l","a","n","0"," ","E","S","S","I","D",":","o","f","f","/","a","n","y","\n">>
I_none == <<"l","o"," ","n","o"," ","w","i","r","e","l","e","s","s"," ","e","x","t","e","n","s","i","o","n","s",".","\n">>
I_empty == <<"w","l","a","n","0"," ","E","S","S","I","D",":","\"","\"","\n">>

(***************************************************************************)
(* The environment of one detection: for each external command, how        *)
(* subprocess.run(cmd, capture_output=True, text=True, check=True) ends.   *)
(* "missing": the binary is not installed (FileNotFoundError); "failed":   *)
(* non-zero exit status (CalledProcessError); "ok": exit status 0 with the *)
(* given stdout.                                                           *)
(***************************************************************************)
Platforms == {"windows", "darwin", "linux", "other"}

PlatformCommands(p) ==
  CASE p = "windows" -> {"netsh_profiles", "netsh_interfaces"}
    [] p = "darwin"  -> {"networksetup", "airport"}
    [] p = "linux"   -> {"iwgetid", "nmcli", "iwconfig"}
    [] OTHER         -> {}

Stdouts(c) ==
  CASE c = "netsh_profiles"   -> {<<>>}
    [] c = "netsh_interfaces" -> {W_connected, W_bssid_first, W_bssid_only, W_ssid_named_bssid,
                                  W_no_interface, <<>>}
    [] c = "networksetup"     -> {M_current, M_not_assoc, M_marker_not_assoc, <<>>}
    [] c = "airport"          -> {A_full, A_ssid, A_off, A_blank}
    [] c = "iwgetid"          -> {G_a, <<>>}
    [] c = "nmcli"            -> {N_active, N_inactive, N_blank}
    [] c = "iwconfig"         -> {I_essid, I_off, I_none, I_empty}

Outcomes(c) ==
  {[status |-> "missing", stdout |-> <<>>], [status |-> "failed", stdout |-> <<>>]}
    \cup {[status |-> "ok", stdout |-> t] : t \in Stdouts(c)}

Envs(p) ==
  {e \in [PlatformCommands(p) -> UNION {Outcomes(c) : c \in PlatformCommands(p)}] :
     \A c \in PlatformCommands(p) : e[c] \in Outcomes(c)}

\* subprocess.run(cmd, ..., check=True)
run(cmd, env) ==
  CASE env[cmd].status = "missing" -> Raise("FileNotFoundError")
    [] env[cmd].status = "failed"  -> Raise("CalledProcessError")
    [] OTHER                       -> Return(env[cmd].stdout)

\* a Python value used as a condition: None and the empty str are false
Truthy(v) == v # None /\ v # <<>>

\* the smallest element of a non-empty set of integers
Least(S) == CHOOSE i \in S : \A k \in S : i <= k

(***************************************************************************)
(* NetworkDetector.  Every method yields [out, cmds]: its outcome and the  *)
(* external commands it ran, in order.                                     *)
(***************************************************************************)
get_ssid_windows(env) ==
  LET r1 == run("netsh_profiles", env)
      r2 == run("netsh_interfaces", env)
      lines == Split(r2.value, <<"\n">>)
      hits == {i \in 1..Len(lines) :
                 /\ Contains(S_SSID, lines[i])
                 /\ ~Contains(S_BSSID, lines[i])
                 /\ SearchSsid(Strip(lines[i])) # None}
  IN  IF r1.raised
      THEN [out |-> Return(None), cmds |-> <<"netsh_profiles">>]
      ELSE [cmds |-> <<"netsh_profiles", "netsh_interfaces">>,
            out  |-> IF r2.raised THEN Return(None)
                     ELSE IF hits = {} THEN Return(None)
                     ELSE Return(Strip(SearchSsid(Strip(lines[Least(hits)]))))]

get_ssid_macos(env) ==
  LET r1 == run("networksetup", env)
      ssid1 == Strip(SplitLast(r1.value, S_Current_WiFi_Network))
      r2 == run("airport", env)
      lines == Split(r2.value, <<"\n">>)
      hits == {i \in 1..Len(lines) : Contains(S_SSID_colon, lines[i])}
  IN  IF r1.raised
      THEN [out |-> Return(None), cmds |-> <<"networksetup">>]
      ELSE IF /\ Contains(S_Current_WiFi_Network, r1.value)
              /\ ssid1 # <<>>
              /\ ssid1 # S_not_associated
      THEN [out |-> Return(ssid1), cmds |-> <<"networksetup">>]
      ELSE [cmds |-> <<"networksetup", "airport">>,
            out  |-> IF r2.raised THEN Return(None)
                     ELSE IF hits = {} THEN Return(None)
                     ELSE Return(Strip(SplitLast(lines[Least(hits)], S_SSID_colon)))]

linux_iwgetid(env) ==
  LET r == run("iwgetid", env)
      ssid == Strip(r.value)
  IN  IF r.raised THEN r
      ELSE Return(IF ssid # <<>> THEN ssid ELSE None)

linux_nmcli(env) ==
  LET r == run("nmcli", env)
      lines == Split(r.value, <<"\n">>)
      hits == {i \in 1..Len(lines) : StartsWithAt(S_yes_colon, lines[i], 1)}
      ssid == SplitOnce1(lines[Least(hits)], <<":">>)
  IN  IF r.raised THEN r
      ELSE IF hits = {} THEN Return(None)
      ELSE Return(IF ssid # <<>> THEN ssid ELSE None)

\* _linux_iwconfig taking the text after ESSID: as the macOS fallback takes
\* the text after SSID:, quotes and off/any included
linux_iwconfig_text_after_colon(env) ==
  LET r == run("iwconfig", env)
      lines == Split(r.value, <<"\n">>)
      hits == {i \in 1..Len(lines) : Contains(S_ESSID_colon, lines[i])}
  IN  IF r.raised THEN r
      ELSE IF hits = {} THEN Return(None)
      ELSE Return(Strip(SplitLast(lines[Least(hits)], S_ESSID_colon)))

linux_iwconfig(env) ==
  LET r == run("iwconfig", env)
      lines == Split(r.value, <<"\n">>)
      hits == {i \in 1..Len(lines) :
                 Contains(S_ESSID_colon, lines[i]) /\ SearchEssid(lines[i]) # None}
  IN  IF r.raised THEN r
      ELSE IF hits = {} THEN Return(None)
      ELSE Return(SearchEssid(lines[Least(hits)]))

\* the methods list of _get_ssid_linux, in its order
LinuxMethods == <<"iwgetid", "nmcli", "iwconfig">>

LinuxMethod(m, env) ==
  CASE m = "iwgetid" -> linux_iwgetid(env)
    [] m = "nmcli"   -> linux_nmcli(env)
    [] OTHER         -> linux_iwconfig(env)

\* the loop of _get_ssid_linux with the try around the whole loop: the first
\* mechanism that raises ends the detection
linux_loop_stops_on_error(env, i, ran) ==
  LET stop == {j \in i..Len(LinuxMethods) :
                 \/ LinuxMethod(LinuxMethods[j], env).raised
                 \/ Truthy(LinuxMethod(LinuxMethods[j], env).value)}
  IN  IF stop = {}
      THEN [out |-> Return(None), cmds |-> ran \o SubSeq(LinuxMethods, i, Len(LinuxMethods))]
      ELSE LET r == LinuxMethod(LinuxMethods[Least(stop)], env)
           IN  [out  |-> IF r.raised THEN Return(None) ELSE Return(r.value),
                cmds |-> ran \o SubSeq(LinuxMethods, i, Least(stop))]

RECURSIVE linux_loop(_, _, _)
\* the for loop of _get_ssid_linux from the i-th method on
linux_loop(env, i, ran) ==
  IF i > Len(LinuxMethods)
  THEN [out |-> Return(None), cmds |-> ran]
  ELSE LET r == LinuxMethod(LinuxMethods[i], env)
       IN  IF ~r.raised /\ Truthy(r.value)
           THEN [out |-> Return(r.value), cmds |-> Append(ran, LinuxMethods[i])]
           ELSE linux_loop(env, i + 1, Append(ran, LinuxMethods[i]))

get_ssid_linux(env) == linux_loop(env, 1, <<>>)

\* get_current_ssid with the unsupported platform raising instead of
\* returning None
get_current_ssid_unsupported_raises(p, env) ==
  LET r == CASE p = "windows" -> get_ssid_windows(env)
             [] p = "darwin"  -> get_ssid_macos(env)
             [] p = "linux"   -> get_ssid_linux(env)
             [] OTHER         -> [out |-> Raise("NotImplementedError"), cmds |-> <<>>]
  IN  r

get_current_ssid(p, env) ==
  LET r == CASE p = "windows" -> get_ssid_windows(env)
             [] p = "darwin"  -> get_ssid_macos(env)
             [] p = "linux"   -> get_ssid_linux(env)
             [] OTHER         -> [out |-> Return(None), cmds |-> <<>>]
  IN  IF r.out.raised THEN [out |-> Return(None), cmds |-> r.cmds] ELSE r

(***************************************************************************)
(* Configuration.  A JSON object whose keys the code names literally is a  *)
(* function from key strings to values; the `networks` object, which the   *)
(* code iterates, is the sequence of its [k, v] entries in insertion       *)
(* order, with distinct keys.                                              *)
(***************************************************************************)
Keys(d) == [i \in 1..Len(d) |-> d[i].k]

\* name in d
HasKey(d, name) == \E i \in 1..Len(d) : d[i].k = name

\* d[name], for name in d
Lookup(d, name) == d[CHOOSE i \in 1..Len(d) : d[i].k = name].v

\* o.get(key, dflt)
Get(o, key, dflt) == IF key \in DOMAIN o THEN o[key] ELSE dflt

S_home == <<"h","o","m","e">>

S_work == <<"w","o","r","k">>

S_ghost == <<"g","h","o","s","t">>

Url == <<"u">>

User == <<"n">>

Pass == <<"p">>

Ptype == <<"1">>

\* the most profiles a `networks` object has here
MaxProfiles == 2

ProfileNames == {<<>>, S_home, S_work}

ProfileSsids == {<<>>, SsidA, SsidB}

Profiles ==
  {[wifi_url |-> Url, username |-> User, password |-> Pass]}
    \cup {[ssid |-> x, wifi_url |-> Url, username |-> User, password |-> Pass] :
            x \in ProfileSsids}

NetworksOfLen(n) ==
  {d \in [1..n -> [k : ProfileNames, v : Profiles]] :
     \A i, j \in 1..n : i # j => d[i].k # d[j].k}

NetworkMaps == UNION {NetworksOfLen(n) : n \in 0..MaxProfiles}

MultiConfigs ==
  {[networks |-> d] : d \in NetworkMaps}
    \cup {[networks |-> d, default_network |-> x] :
            d \in NetworkMaps, x \in ProfileNames \cup {S_ghost}}

LegacyFields == {"ssid", "wifi_url", "username", "password", "product_type"}

LegacyValue(f) ==
  CASE f = "ssid"         -> SsidA
    [] f = "wifi_url"     -> Url
    [] f = "username"     -> User
    [] f = "password"     -> Pass
    [] OTHER              -> Ptype

LegacyConfigs == {[f \in F |-> LegacyValue(f)] : F \in SUBSET LegacyFields}

\* what config.json can be: not there, not JSON, or a configuration
ConfigFiles ==
  {[state |-> "missing"], [state |-> "invalid"]}
    \cup {[state |-> "json", json |-> c] : c \in LegacyConfigs \cup MultiConfigs}

\* the explicit names a caller passes
NameArgs == {None} \cup ProfileNames \cup {S_ghost}

(***************************************************************************)
(* NetworkProfileManager.                                                  *)
(***************************************************************************)
\* load_config answering from a copy kept from before the last write
load_config_cached(file) ==
  CASE save.old.state = "missing" -> Raise("FileNotFoundError")
    [] save.old.state = "invalid" -> Raise("JSONDecodeError")
    [] OTHER                      -> Return(save.old.json)

load_config(file) ==
  CASE file.state = "missing" -> Raise("FileNotFoundError")
    [] file.state = "invalid" -> Raise("JSONDecodeError")
    [] OTHER                  -> Return(file.json)

\* legacy_profile reading the password with .get: no KeyError without it
legacy_profile_optional_password(config) ==
  IF {"wifi_url", "username"} \subseteq DOMAIN config
  THEN Return([ssid         |-> Get(config, "ssid", S_Unknown),
               wifi_url     |-> config["wifi_url"],
               username     |-> config["username"],
               password     |-> Get(config, "password", None),
               product_type |-> Get(config, "product_type", S_0),
               description  |-> S_Legacy_configuration])
  ELSE Raise("KeyError")

\* legacy_profile with config.get("ssid") and no default
legacy_profile_ssid_none(config) ==
  IF {"wifi_url", "username", "password"} \subseteq DOMAIN config
  THEN Return([ssid         |-> Get(config, "ssid", None),
               wifi_url     |-> config["wifi_url"],
               username     |-> config["username"],
               password     |-> config["password"],
               product_type |-> Get(config, "product_type", S_0),
               description  |-> S_Legacy_configuration])
  ELSE Raise("KeyError")

\* the legacy_config literal of get_network_profile; config[...] of a missing
\* key raises KeyError
legacy_profile(config) ==
  IF {"wifi_url", "username", "password"} \subseteq DOMAIN config
  THEN Return([ssid         |-> Get(config, "ssid", S_Unknown),
               wifi_url     |-> config["wifi_url"],
               username     |-> config["username"],
               password     |-> config["password"],
               product_type |-> Get(config, "product_type", S_0),
               description  |-> S_Legacy_configuration])
  ELSE Raise("KeyError")

\* match_ssid keeping the last match of the scan instead of the first
match_ssid_last(networks, current_ssid) ==
  LET hits == {i \in 1..Len(networks) : Get(networks[i].v, "ssid", None) = current_ssid}
  IN  IF hits = {} THEN 0 ELSE CHOOSE i \in hits : \A k \in hits : i >= k

\* the index of the first profile of networks whose ssid is current_ssid,
\* 0 when there is none
match_ssid(networks, current_ssid) ==
  LET hits == {i \in 1..Len(networks) : Get(networks[i].v, "ssid", None) = current_ssid}
  IN  IF hits = {} THEN 0 ELSE Least(hits)

\* fall_back that never reads default_network
fall_back_ignores_default(config, networks, log, dets) ==
  IF Len(networks) = 0
  THEN [out |-> Raise("IndexError"), log |-> log, detections |-> dets]
  ELSE [out |-> Return(<<networks[1].k, networks[1].v>>),
        log |-> Append(log, "first_available"), detections |-> dets]

\* fall_back indexing networks[config["default_network"]] without the checks
fall_back_requires_default(config, networks, log, dets) ==
  IF "default_network" \in DOMAIN config /\ HasKey(networks, config["default_network"])
  THEN [out |-> Return(<<config["default_network"],
                         Lookup(networks, config["default_network"])>>),
        log |-> Append(log, "default"), detections |-> dets]
  ELSE [out |-> Raise("KeyError"), log |-> log, detections |-> dets]

\* lines 252-261: the configured default, else the first profile
fall_back(config, networks, log, dets) ==
  IF Len(networks) = 0
  THEN [out |-> Raise("IndexError"), log |-> log, detections |-> dets]
  ELSE LET default_network == Get(config, "default_network", networks[1].k)
       IN  IF HasKey(networks, default_network)
           THEN [out |-> Return(<<default_network, Lookup(networks, default_network)>>),
                 log |-> Append(log, "default"), detections |-> dets]
           ELSE [out |-> Return(<<networks[1].k, networks[1].v>>),
                 log |-> Append(log, "first_available"), detections |-> dets]

\* auto_detection asking the detector again for the SSID it matches on
auto_detection_asks_twice(config, networks, det) ==
  IF det.out.raised
  THEN [out |-> det.out, log |-> <<>>, detections |-> <<det>>]
  ELSE LET current_ssid == det.out.value
           m == match_ssid(networks, current_ssid)
       IN  IF ~Truthy(current_ssid)
           THEN fall_back(config, networks, <<"no_ssid">>, <<det>>)
           ELSE IF m # 0
           THEN [out |-> Return(<<networks[m].k, networks[m].v>>),
                 log |-> <<"detected", "matching">>, detections |-> <<det, det>>]
           ELSE fall_back(config, networks, <<"detected", "no_profile_for_ssid">>, <<det, det>>)

\* auto_detection that raises when no SSID is detected
auto_detection_strict(config, networks, det) ==
  IF det.out.raised
  THEN [out |-> det.out, log |-> <<>>, detections |-> <<det>>]
  ELSE LET current_ssid == det.out.value
           m == match_ssid(networks, current_ssid)
       IN  IF ~Truthy(current_ssid)
           THEN [out |-> Raise("RuntimeError"), log |-> <<"no_ssid">>, detections |-> <<det>>]
           ELSE IF m # 0
           THEN [out |-> Return(<<networks[m].k, networks[m].v>>),
                 log |-> <<"detected", "matching">>, detections |-> <<det>>]
           ELSE fall_back(config, networks, <<"detected", "no_profile_for_ssid">>, <<det>>)

\* lines 236-250: det is what self.detector.get_current_ssid() does when called
auto_detection(config, networks, det) ==
  IF det.out.raised
  THEN [out |-> det.out, log |-> <<>>, detections |-> <<det>>]
  ELSE LET current_ssid == det.out.value
           m == match_ssid(networks, current_ssid)
       IN  IF ~Truthy(current_ssid)
           THEN fall_back(config, networks, <<"no_ssid">>, <<det>>)
           ELSE IF m # 0
           THEN [out |-> Return(<<networks[m].k, networks[m].v>>),
                 log |-> <<"detected", "matching">>, detections |-> <<det>>]
           ELSE fall_back(config, networks, <<"detected", "no_profile_for_ssid">>, <<det>>)

\* specified_profile with networks.get(network_name): no error for an unknown name
specified_profile_unchecked(networks, network_name) ==
  IF HasKey(networks, network_name)
  THEN [out |-> Return(<<network_name, Lookup(networks, network_name)>>),
        log |-> <<"specified">>, detections |-> <<>>]
  ELSE [out |-> Return(<<network_name, None>>), log |-> <<"specified">>, detections |-> <<>>]

\* lines 230-234: the profile the caller named
specified_profile(networks, network_name) ==
  IF HasKey(networks, network_name)
  THEN [out |-> Return(<<network_name, Lookup(networks, network_name)>>),
        log |-> <<"specified">>, detections |-> <<>>]
  ELSE [out |-> Raise("ValueError"), log |-> <<>>, detections |-> <<>>]

get_network_profile(file, network_name, auto_detect, det) ==
  LET loaded == load_config(file)
      config == loaded.value
      legacy == legacy_profile(config)
      networks == config["networks"]
  IN  IF loaded.raised
      THEN [out |-> loaded, log |-> <<>>, detections |-> <<>>]
      ELSE IF "networks" \notin DOMAIN config
      THEN [out |-> IF legacy.raised THEN legacy ELSE Return(<<S_legacy, legacy.value>>),
            log |-> <<"legacy">>, detections |-> <<>>]
      ELSE IF Truthy(network_name)
      THEN specified_profile(networks, network_name)
      ELSE IF auto_detect
      THEN auto_detection(config, networks, det)
      ELSE fall_back(config, networks, <<>>, <<>>)

\* list_networks loading the configuration outside its try block
list_networks_load_unguarded(file) ==
  LET loaded == load_config(file)
      config == loaded.value
  IN  IF loaded.raised THEN loaded
      ELSE IF "networks" \notin DOMAIN config
      THEN IF "wifi_url" \in DOMAIN config
           THEN Return(<<[k |-> S_legacy,
                          v |-> [ssid        |-> Get(config, "ssid", S_Unknown),
                                 wifi_url    |-> config["wifi_url"],
                                 description |-> S_Legacy_configuration]]>>)
           ELSE Return(<<>>)
      ELSE Return(config["networks"])

\* list_networks naming the legacy entry as get_available_networks does
list_networks_default_key(file) ==
  LET loaded == load_config(file)
      config == loaded.value
  IN  IF loaded.raised THEN Return(<<>>)
      ELSE IF "networks" \notin DOMAIN config
      THEN IF "wifi_url" \in DOMAIN config
           THEN Return(<<[k |-> S_default,
                          v |-> [ssid        |-> Get(config, "ssid", S_Unknown),
                                 wifi_url    |-> config["wifi_url"],
                                 description |-> S_Legacy_configuration]]>>)
           ELSE Return(<<>>)
      ELSE Return(config["networks"])

list_networks(file) ==
  LET loaded == load_config(file)
      config == loaded.value
  IN  IF loaded.raised THEN Return(<<>>)
      ELSE IF "networks" \notin DOMAIN config
      THEN IF "wifi_url" \in DOMAIN config
           THEN Return(<<[k |-> S_legacy,
                          v |-> [ssid        |-> Get(config, "ssid", S_Unknown),
                                 wifi_url    |-> config["wifi_url"],
                                 description |-> S_Legacy_configuration]]>>)
           ELSE Return(<<>>)
      ELSE Return(config["networks"])

\* get_available_networks answering with the legacy placeholder when the
\* configuration cannot be loaded
get_available_networks_placeholder_on_error(file) ==
  LET loaded == load_config(file)
      config == loaded.value
  IN  IF loaded.raised THEN Return(<<S_default>>)
      ELSE IF "networks" \in DOMAIN config
      THEN Return(Keys(config["networks"]))
      ELSE Return(<<S_default>>)

get_available_networks(file) ==
  LET loaded == load_config(file)
      config == loaded.value
  IN  IF loaded.raised THEN Return(<<>>)
      ELSE IF "networks" \in DOMAIN config
      THEN Return(Keys(config["networks"]))
      ELSE Return(<<S_default>>)

(***************************************************************************)
(* What the detector can do on each platform: its outcome under every      *)
(* environment.                                                            *)
(***************************************************************************)
DetectorOutcomes == [p \in Platforms |-> {get_current_ssid(p, e) : e \in Envs(p)}]

(***************************************************************************)
(* The state: the configuration file on disk, the platform the process     *)
(* runs on, the last call made: its arguments, what the detector does if   *)
(* this call asks it (det), and the call's outcome; and the save_config in *)
(* progress, with the file version before it (old) and the one it writes   *)
(* (new); and the rows of the login_attempts table of wifi_log.db.         *)
(***************************************************************************)
\* no save_config is running: the last version written is the file itself
NoSave(file) == [pc |-> "idle", old |-> file, new |-> file]

Init ==
  /\ config_file \in ConfigFiles
  /\ platform \in Platforms
  /\ call = [op |-> "none"]
  /\ save = NoSave(config_file)
  /\ login_attempts = <<>>

GetNetworkProfile ==
  \E network_name \in NameArgs, auto_detect \in BOOLEAN, det \in DetectorOutcomes[platform] :
    /\ call' = [op |-> "get_network_profile",
                network_name |-> network_name,
                auto_detect |-> auto_detect,
                det |-> det,
                res |-> get_network_profile(config_file, network_name, auto_detect, det)]
    /\ UNCHANGED <<config_file, platform, save, login_attempts>>

ListNetworks ==
  /\ call' = [op |-> "list_networks", res |-> list_networks(config_file)]
  /\ UNCHANGED <<config_file, platform, save, login_attempts>>

GetAvailableNetworks ==
  /\ call' = [op |-> "get_available_networks", res |-> get_available_networks(config_file)]
  /\ UNCHANGED <<config_file, platform, save, login_attempts>>

Next == GetNetworkProfile \/ ListNetworks \/ GetAvailableNetworks

Spec == Init /\ [][Next]_vars

(***************************************************************************)
(* The detector on its own: the module-level get_current_ssid().           *)
(***************************************************************************)
DetInit ==
  /\ config_file = [state |-> "missing"]
  /\ platform \in Platforms
  /\ call = [op |-> "none"]
  /\ save = NoSave(config_file)
  /\ login_attempts = <<>>

GetCurrentSsid ==
  \E env \in Envs(platform) :
    /\ call' = [op |-> "get_current_ssid", env |-> env,
                res |-> get_current_ssid(platform, env)]
    /\ UNCHANGED <<config_file, platform, save, login_attempts>>

\* one mechanism of the Linux detector called on its own
LinuxIwconfig ==
  /\ platform = "linux"
  /\ \E env \in Envs(platform) :
       call' = [op |-> "linux_iwconfig", env |-> env, res |-> linux_iwconfig(env)]
  /\ UNCHANGED <<config_file, platform, save, login_attempts>>

DetNext == GetCurrentSsid \/ LinuxIwconfig

DetSpec == DetInit /\ [][DetNext]_vars

(***************************************************************************)
(* Callers of the configuration running beside save_config                 *)
(* (src/wifi_auto_login.py).  save_config opens the file for writing,      *)
(* which truncates it, and json.dump and the close of the with block put   *)
(* the new text there: two steps, between which the file is empty.  A      *)
(* reader takes the whole file in one step.  config_file.json is what      *)
(* json.load gives for the text; for these objects of str keys and str     *)
(* values that is the object json.dump was given.                          *)
(***************************************************************************)
\* the ssid the setup flow is given for a profile name here
SsidOfName(name) == IF name = S_home THEN SsidA ELSE SsidB

\* the configurations save_config is given: the legacy shape of
\* setup_single_network, and multi-profile shapes of setup_multi_network
SaveArgs ==
  {c \in LegacyConfigs : DOMAIN c = {"wifi_url", "username", "password", "product_type"}}
    \cup {c \in MultiConfigs :
            /\ "default_network" \in DOMAIN c
            /\ Len(c["networks"]) > 0
            /\ HasKey(c["networks"], c["default_network"])
            /\ \A i \in 1..Len(c["networks"]) :
                 /\ c["networks"][i].k # <<>>
                 /\ "ssid" \in DOMAIN c["networks"][i].v
                 /\ c["networks"][i].v["ssid"] = SsidOfName(c["networks"][i].k)}

\* open(CONFIG_PATH, 'w')
SaveOpen ==
  /\ save.pc = "idle"
  /\ \E config \in SaveArgs :
       save' = [pc |-> "open", old |-> config_file,
                new |-> [state |-> "json", json |-> config]]
  /\ config_file' = [state |-> "invalid"]
  /\ UNCHANGED <<platform, call, login_attempts>>

\* json.dump(config, f, indent=2) and the end of the with block
SaveWrite ==
  /\ save.pc = "open"
  /\ config_file' = save.new
  /\ save' = [save EXCEPT !.pc = "idle"]
  /\ UNCHANGED <<platform, call, login_attempts>>

ConcInit ==
  /\ config_file \in {[state |-> "missing"]} \cup {[state |-> "json", json |-> c] : c \in SaveArgs}
  /\ platform \in Platforms
  /\ call = [op |-> "none"]
  /\ save = NoSave(config_file)
  /\ login_attempts = <<>>

ConcNext ==
  \/ GetNetworkProfile
  \/ ListNetworks
  \/ GetAvailableNetworks
  \/ SaveOpen
  \/ SaveWrite

ConcSpec == ConcInit /\ [][ConcNext]_vars

(***************************************************************************)
(* The login attempt (src/wifi_auto_login.py).  MULTI_NETWORK_SUPPORT is   *)
(* True: the import of network_utils at line 32 needs only the standard    *)
(* library and config.logging_config, which line 26 has imported already.  *)
(* A row of login_attempts is modelled without its id, timestamp and a     *)
(* columns, which hold the clock's values.                                 *)
(***************************************************************************)
S_message_open == <<"<","m","e","s","s","a","g","e",">","<","!","[","C","D","A","T","A","[">>

S_message_close == <<"]","]",">","<","/","m","e","s","s","a","g","e",">">>

S_Unknown_response == <<"U","n","k","n","o","w","n"," ","r","e","s","p","o","n","s","e">>

S_FAILED == <<"F","A","I","L","E","D">>

S_stars == <<"*","*","*","*","*","*">>

S_191 == <<"1","9","1">>

S_200 == <<"2","0","0">>

\* str(e) of the request error
S_refused == <<"r","e","f","u","s","e","d">>

\* response bodies: one carrying a message element, one without
X_message == <<"<","m","e","s","s","a","g","e",">","<","!","[","C","D","A","T","A","[","o","k","]","]",">","<","/","m","e","s","s","a","g","e",">">>

X_plain == <<"b","u","s","y">>

\* where a closing marker ends a match that opened at i: (.*?) takes no newline
MessageEnds(s, i) ==
  {j \in (i + Len(S_message_open))..(Len(s) + 1) :
     /\ StartsWithAt(S_message_close, s, j)
     /\ \A k \in (i + Len(S_message_open))..(j - 1) : s[k] # "\n"}

\* where re.search can match
MessageStarts(s) ==
  {i \in 1..Len(s) : StartsWithAt(S_message_open, s, i) /\ MessageEnds(s, i) # {}}

\* lines 97-100: the leftmost match and its shortest group
extract_message(response_text) ==
  IF MessageStarts(response_text) = {}
  THEN S_Unknown_response
  ELSE LET i == Least(MessageStarts(response_text))
       IN  SubSeq(response_text, i + Len(S_message_open),
                  Least(MessageEnds(response_text, i)) - 1)

\* what requests.post does: a response, or a RequestException.  The TEXT
\* column response_status keeps the integer status code as its decimal text.
PostOutcomes ==
  {Return([status_code |-> S_200, text |-> x]) : x \in {X_message, X_plain}}
    \cup {Raise("RequestException")}

\* wifi_login writing the name it was asked for, not the one resolved
wifi_login_tags_requested_name(file, network_name, det, post) ==
  LET resolved == get_network_profile(file, network_name, TRUE, det)
      network_config == resolved.out.value[2]
      payload == [url         |-> network_config["wifi_url"],
                  mode        |-> S_191,
                  username    |-> network_config["username"],
                  password    |-> network_config["password"],
                  producttype |-> Get(network_config, "product_type", S_0)]
      row(response_status, response_message) ==
        [network_name     |-> network_name,
         network_ssid     |-> Get(network_config, "ssid", S_Unknown),
         username         |-> network_config["username"],
         password         |-> S_stars,
         response_status  |-> response_status,
         response_message |-> response_message]
  IN  IF resolved.out.raised
      THEN [error |-> resolved.out.exc, resolved |-> resolved, posts |-> <<>>, rows |-> <<>>]
      ELSE IF ~({"wifi_url", "username", "password"} \subseteq DOMAIN network_config)
      THEN [error |-> "KeyError", resolved |-> resolved, posts |-> <<>>, rows |-> <<>>]
      ELSE IF post.raised
      THEN [error |-> "none", resolved |-> resolved, posts |-> <<payload>>,
            rows |-> <<row(S_FAILED, S_refused)>>]
      ELSE [error |-> "none", resolved |-> resolved, posts |-> <<payload>>,
            rows |-> <<row(post.value.status_code, extract_message(post.value.text))>>]

\* wifi_login recording a failed attempt when the configuration is in error
wifi_login_logs_configuration_error(file, network_name, det, post) ==
  LET resolved == get_network_profile(file, network_name, TRUE, det)
      network_config == resolved.out.value[2]
      payload == [url         |-> network_config["wifi_url"],
                  mode        |-> S_191,
                  username    |-> network_config["username"],
                  password    |-> network_config["password"],
                  producttype |-> Get(network_config, "product_type", S_0)]
      row(response_status, response_message) ==
        [network_name     |-> resolved.out.value[1],
         network_ssid     |-> Get(network_config, "ssid", S_Unknown),
         username         |-> network_config["username"],
         password         |-> S_stars,
         response_status  |-> response_status,
         response_message |-> response_message]
      failed == [network_name     |-> S_legacy,
                 network_ssid     |-> S_Unknown,
                 username         |-> None,
                 password         |-> S_stars,
                 response_status  |-> S_FAILED,
                 response_message |-> S_refused]
  IN  IF resolved.out.raised
      THEN [error |-> resolved.out.exc, resolved |-> resolved, posts |-> <<>>,
            rows |-> <<failed>>]
      ELSE IF ~({"wifi_url", "username", "password"} \subseteq DOMAIN network_config)
      THEN [error |-> "KeyError", resolved |-> resolved, posts |-> <<>>, rows |-> <<failed>>]
      ELSE IF post.raised
      THEN [error |-> "none", resolved |-> resolved, posts |-> <<payload>>,
            rows |-> <<row(S_FAILED, S_refused)>>]
      ELSE [error |-> "none", resolved |-> resolved, posts |-> <<payload>>,
            rows |-> <<row(post.value.status_code, extract_message(post.value.text))>>]

\* lines 103-168.  error is the exception the first try block caught (line
\* 133), posts the requests sent, rows the rows log_attempt inserted
wifi_login(file, network_name, det, post) ==
  LET resolved == get_network_profile(file, network_name, TRUE, det)
      network_config == resolved.out.value[2]
      payload == [url         |-> network_config["wifi_url"],
                  mode        |-> S_191,
                  username    |-> network_config["username"],
                  password    |-> network_config["password"],
                  producttype |-> Get(network_config, "product_type", S_0)]
      row(response_status, response_message) ==
        [network_name     |-> resolved.out.value[1],
         network_ssid     |-> Get(network_config, "ssid", S_Unknown),
         username         |-> network_config["username"],
         password         |-> S_stars,
         response_status  |-> response_status,
         response_message |-> response_message]
  IN  IF resolved.out.raised
      THEN [error |-> resolved.out.exc, resolved |-> resolved, posts |-> <<>>, rows |-> <<>>]
      ELSE IF ~({"wifi_url", "username", "password"} \subseteq DOMAIN network_config)
      THEN [error |-> "KeyError", resolved |-> resolved, posts |-> <<>>, rows |-> <<>>]
      ELSE IF post.raised
      THEN [error |-> "none", resolved |-> resolved, posts |-> <<payload>>,
            rows |-> <<row(S_FAILED, S_refused)>>]
      ELSE [error |-> "none", resolved |-> resolved, posts |-> <<payload>>,
            rows |-> <<row(post.value.status_code, extract_message(post.value.text))>>]

\* rows the table holds at most here
MaxAttempts == 2

\* a row an earlier run left in the table
EarlierRow ==
  [network_name     |-> S_legacy,
   network_ssid     |-> S_Unknown,
   username         |-> User,
   password         |-> S_stars,
   response_status  |-> S_200,
   response_message |-> S_Unknown_response]

\* the files the commands are run on here: those of at most one profile, and
\* those of the two profiles home and work, in that order
CommandConfigFiles ==
  {f \in ConfigFiles :
     (f.state = "json" /\ "networks" \in DOMAIN f.json /\ Len(f.json["networks"]) > 1)
       => Keys(f.json["networks"]) = <<S_home, S_work>>}

LoginInit ==
  /\ config_file \in CommandConfigFiles
  /\ platform \in Platforms
  /\ call = [op |-> "none"]
  /\ save = NoSave(config_file)
  /\ login_attempts = <<EarlierRow>>

\* python wifi_auto_login.py --login [--network PROFILE].  What the detector
\* did is in res, when the call came to ask it; what requests.post did is
\* post, when the call came to send the request.  Whether it comes to either
\* does not depend on what they do (probe).
WifiLogin ==
  \E network_name \in NameArgs :
    LET probe == wifi_login(config_file, network_name,
                            CHOOSE d \in DetectorOutcomes[platform] : TRUE,
                            Raise("RequestException"))
    IN  \E det \in IF probe.resolved.detections # <<>>
                   THEN DetectorOutcomes[platform] ELSE {None},
           post \in IF probe.posts # <<>> THEN PostOutcomes ELSE {None} :
          LET res == wifi_login(config_file, network_name, det, post)
          IN  /\ Len(login_attempts) + Len(res.rows) <= MaxAttempts
              /\ login_attempts' = login_attempts \o res.rows
              /\ call' = [op |-> "wifi_login", network_name |-> network_name,
                          post |-> post, before |-> login_attempts, res |-> res]
              /\ UNCHANGED <<config_file, platform, save>>

LoginNext == WifiLogin

LoginSpec == LoginInit /\ [][LoginNext]_vars

(***************************************************************************)
(* python wifi_auto_login.py --detect-network.  The command asks the       *)
(* detector itself (det) and prints the SSID; the resolver then asks the   *)
(* detector again (resolver_det).  report is the line printed last.        *)
(***************************************************************************)
detect_network(file, det, resolver_det) ==
  LET current_ssid == det.out.value
      resolved == get_network_profile(file, None, TRUE, resolver_det)
  IN  IF det.out.raised
      THEN [report |-> "error_detecting_network", current_ssid |-> None,
            detections |-> <<det>>]
      ELSE IF ~Truthy(current_ssid)
      THEN [report |-> "no_wifi_connection_detected", current_ssid |-> None,
            detections |-> <<det>>]
      ELSE IF resolved.out.raised
      THEN [report |-> "no_matching_profile", current_ssid |-> current_ssid,
            detections |-> <<det>> \o resolved.detections]
      ELSE [report |-> "found_matching_profile", current_ssid |-> current_ssid,
            network_name |-> resolved.out.value[1],
            network_config |-> resolved.out.value[2],
            detections |-> <<det>> \o resolved.detections]

DetectInit ==
  /\ config_file \in CommandConfigFiles
  /\ platform \in Platforms
  /\ call = [op |-> "none"]
  /\ save = NoSave(config_file)
  /\ login_attempts = <<>>

DetectNetwork ==
  \E det \in DetectorOutcomes[platform], resolver_det \in DetectorOutcomes[platform] :
    /\ call' = [op |-> "detect_network",
                res |-> detect_network(config_file, det, resolver_det)]
    /\ UNCHANGED <<config_file, platform, save, login_attempts>>

DetectNext == DetectNetwork

DetectSpec == DetectInit /\ [][DetectNext]_vars

(***************************************************************************)
(* python wifi_auto_login.py --setup: the interactive wizard.  The answers *)
(* typed at the prompts are the inputs; input() at the end of the answers  *)
(* raises EOFError, which ends the wizard before anything is saved.        *)
(***************************************************************************)
LowerLetters == <<"a","b","c","d","e","f","g","h","i","j","k","l","m","n","o","p","q","r","s","t","u","v","w","x","y","z">>

UpperLetters == <<"A","B","C","D","E","F","G","H","I","J","K","L","M","N","O","P","Q","R","S","T","U","V","W","X","Y","Z">>

\* the place of character c in the alphabet letters, 0 when it is not there
LetterIndex(letters, c) ==
  IF \E i \in 1..Len(letters) : letters[i] = c
  THEN CHOOSE i \in 1..Len(letters) : letters[i] = c
  ELSE 0

ToLower(c) ==
  IF LetterIndex(UpperLetters, c) # 0 THEN LowerLetters[LetterIndex(UpperLetters, c)] ELSE c

ToUpper(c) ==
  IF LetterIndex(LowerLetters, c) # 0 THEN UpperLetters[LetterIndex(LowerLetters, c)] ELSE c

IsLetter(c) == LetterIndex(LowerLetters, c) # 0 \/ LetterIndex(UpperLetters, c) # 0

\* str.lower()
Lower(s) == [i \in 1..Len(s) |-> ToLower(s[i])]

\* str.title(): a letter after a non-letter is upper case, any other lower
Title(s) ==
  [i \in 1..Len(s) |->
     IF i = 1 \/ ~IsLetter(s[i - 1]) THEN ToUpper(s[i]) ELSE ToLower(s[i])]

S_network_suffix == <<" ","n","e","t","w","o","r","k">>

S_y == <<"y">>

S_yes == <<"y","e","s">>

S_2 == <<"2">>

\* the dashboard object both setup functions write
Dashboard ==
  [host |-> <<"1","2","7",".","0",".","0",".","1">>, port |-> 8000, username |-> <<"a","d","m","i","n">>,
   password |-> <<"a","d","m","i","n","1","2","3">>]

\* d[k] = v of a dict: a key already there keeps its place
Put(d, k, v) ==
  IF HasKey(d, k)
  THEN [i \in 1..Len(d) |-> IF d[i].k = k THEN [k |-> k, v |-> v] ELSE d[i]]
  ELSE Append(d, [k |-> k, v |-> v])

\* profile entries typed at most
MaxEntries == 3

\* names typed at the profile name prompt
RawNames == {<<>>, <<" ">>, S_home, S_work, <<" ">> \o S_home}

\* the answers to one round of prompts of setup_multi_network; a name that
\* strips to nothing ends the round at the first prompt
Entries ==
  {[profile_name |-> n] : n \in {x \in RawNames : Strip(x) = <<>>}}
    \cup [profile_name : {x \in RawNames : Strip(x) # <<>>},
          product_type : {<<>>, Ptype},
          description  : {<<>>, <<"d">>},
          add_more     : {<<>>, <<"Y">>, <<"n">>}]

\* the wizard keeps the two optional answers of a round either both blank or
\* both filled here
Rounds ==
  {e \in Entries :
     "description" \in DOMAIN e => (e.description = <<>> <=> e.product_type = <<>>)}

\* a round after which the wizard asks for another
Continues(e) ==
  /\ Strip(e.profile_name) # <<>>
  /\ Lower(Strip(e.add_more)) \in {S_y, S_yes}

\* the rounds typed in one run: every round but the last asks for another
WizardScripts ==
  {entries \in UNION {[1..n -> Rounds] : n \in 0..MaxEntries} :
     \A i \in 1..(Len(entries) - 1) : Continues(entries[i])}

\* answers to the default network prompt
DefaultAnswers == {<<>>, S_home, <<" ">> \o S_work, S_ghost}

\* answers to the product type prompt of setup_single_network
SingleAnswers == {<<>>, Ptype}

\* answers to the configuration type prompt
Choices == {<<"1">>, S_2, <<" ">> \o S_2, <<>>}

\* lines 384-391: the profile stored for a round
entered_profile(profile_name, e) ==
  [ssid         |-> SsidOfName(profile_name),
   wifi_url     |-> Url,
   username     |-> User,
   password     |-> Pass,
   product_type |-> IF Truthy(Strip(e.product_type)) THEN Strip(e.product_type) ELSE S_0,
   description  |-> IF Truthy(Strip(e.description))
                    THEN Strip(e.description)
                    ELSE Title(profile_name) \o S_network_suffix]

\* lines 370-398: the loop over the rounds of answers, from round i on
RECURSIVE multi_loop(_, _, _, _)

multi_loop(entries, i, networks, default_network) ==
  IF i > Len(entries)
  THEN [eof |-> TRUE, networks |-> networks,
        default_network |-> default_network]
  ELSE LET profile_name == Strip(entries[i].profile_name)
           stored == Put(networks, profile_name, entered_profile(profile_name, entries[i]))
           chosen == IF ~Truthy(default_network) THEN profile_name ELSE default_network
       IN  IF ~Truthy(profile_name)
           THEN [eof |-> FALSE, networks |-> networks,
                 default_network |-> default_network]
           ELSE IF Continues(entries[i])
           THEN multi_loop(entries, i + 1, stored, chosen)
           ELSE [eof |-> FALSE, networks |-> stored,
                 default_network |-> chosen]

\* lines 338-361: the configuration setup_single_network saves
setup_single_network(product_type) ==
  [wifi_url     |-> Url,
   username     |-> User,
   password     |-> Pass,
   product_type |-> IF Truthy(product_type) THEN product_type ELSE S_0,
   dashboard    |-> Dashboard]

\* setup_multi_network keeping the default network typed, configured or not
setup_multi_network_any_default(entries, default_choice, product_type) ==
  LET looped == multi_loop(entries, 1, <<>>, None)
      networks == looped.networks
      asked == Len(networks) > 1
      default_network == IF asked /\ Truthy(Strip(default_choice))
                         THEN Strip(default_choice)
                         ELSE looped.default_network
  IN  IF looped.eof
      THEN [saved |-> FALSE, asked_default |-> FALSE,
            asked_single |-> FALSE, profiles |-> Len(networks)]
      ELSE IF networks = <<>>
      THEN [saved |-> TRUE, asked_default |-> FALSE,
            asked_single |-> TRUE, profiles |-> 0,
            config |-> setup_single_network(product_type)]
      ELSE [saved |-> TRUE, asked_default |-> asked,
            asked_single |-> FALSE, profiles |-> Len(networks),
            config |-> [default_network |-> default_network, networks |-> networks,
                        dashboard |-> Dashboard]]

\* lines 363-425
setup_multi_network(entries, default_choice, product_type) ==
  LET looped == multi_loop(entries, 1, <<>>, None)
      networks == looped.networks
      asked == Len(networks) > 1
      default_network == IF asked /\ HasKey(networks, Strip(default_choice))
                         THEN Strip(default_choice)
                         ELSE looped.default_network
  IN  IF looped.eof
      THEN [saved |-> FALSE, asked_default |-> FALSE,
            asked_single |-> FALSE, profiles |-> Len(networks)]
      ELSE IF networks = <<>>
      THEN [saved |-> TRUE, asked_default |-> FALSE,
            asked_single |-> TRUE, profiles |-> 0,
            config |-> setup_single_network(product_type)]
      ELSE [saved |-> TRUE, asked_default |-> asked,
            asked_single |-> FALSE, profiles |-> Len(networks),
            config |-> [default_network |-> default_network, networks |-> networks,
                        dashboard |-> Dashboard]]

\* lines 320-336
run_setup_wizard(choice, entries, default_choice, product_type) ==
  IF Strip(choice) = S_2
  THEN setup_multi_network(entries, default_choice, product_type)
  ELSE [saved |-> TRUE, asked_default |-> FALSE, asked_single |-> TRUE,
        profiles |-> 0, config |-> setup_single_network(product_type)]

\* lines 427-434: the file after save_config(config)
save_config(config) == [state |-> "json", json |-> config]

WizardInit ==
  /\ config_file = [state |-> "missing"]
  /\ platform \in Platforms
  /\ call = [op |-> "none"]
  /\ save = NoSave(config_file)
  /\ login_attempts = <<>>

\* one run of the command; the answers typed are those its prompts get, a
\* prompt that is not reached gets none
RunSetupWizard ==
  /\ call.op = "none"
  /\ \E choice \in Choices :
       \E entries \in IF Strip(choice) = S_2 THEN WizardScripts ELSE {<<>>} :
         LET looped == multi_loop(entries, 1, <<>>, None)
             multi == Strip(choice) = S_2
             asked_default == multi /\ ~looped.eof /\ Len(looped.networks) > 1
             asked_single == ~multi \/ (~looped.eof /\ looped.networks = <<>>)
         IN  \E default_choice \in IF asked_default THEN DefaultAnswers ELSE {None},
                product_type \in IF asked_single THEN SingleAnswers ELSE {None} :
               LET res == run_setup_wizard(choice, entries, default_choice, product_type)
                   file == IF res.saved THEN save_config(res.config) ELSE config_file
               IN  /\ call' = [op |-> "run_setup_wizard", choice |-> choice,
                               entries |-> entries, default_choice |-> default_choice,
                               product_type |-> product_type, res |-> res]
                   /\ config_file' = file
                   /\ save' = NoSave(file)
                   /\ UNCHANGED <<platform, login_attempts>>

WizardNext == RunSetupWizard

WizardSpec == WizardInit /\ [][WizardNext]_vars

(***************************************************************************)
(* Vocabulary of the properties.                                           *)
(***************************************************************************)
Cfg == config_file.json

IsLegacy == config_file.state = "json" /\ "networks" \notin DOMAIN Cfg

IsMulti == config_file.state = "json" /\ "networks" \in DOMAIN Cfg

Networks == Cfg["networks"]

Resolved == call.op = "get_network_profile"

Out == call.res.out

\* the SSID the detector reports to this call
DetSsid == call.det.out.value

\* the profiles of `networks` whose ssid field equals s
SsidMatches(s) ==
  {i \in 1..Len(Networks) : "ssid" \in DOMAIN Networks[i].v /\ Networks[i].v["ssid"] = s}

\* SSID matching selects nothing: no auto-detection, nothing detected, or
\* no profile with the detected SSID
NothingMatched ==
  \/ ~call.auto_detect
  \/ DetSsid = None
  \/ SsidMatches(DetSsid) = {}

DefaultExists ==
  "default_network" \in DOMAIN Cfg /\ HasKey(Networks, Cfg["default_network"])

LegacyComplete == {"wifi_url", "username", "password"} \subseteq DOMAIN Cfg

(***************************************************************************)
(* C1.  On a multi-profile configuration, get_network_profile(X, _) with X *)
(* a key of `networks` returns exactly (X, networks[X]), for both values   *)
(* of auto_detect, whatever the detector reports and whatever              *)
(* default_network is.  The code tests `if network_name:`, so the key ""   *)
(* is treated as no name at all.                                           *)
(***************************************************************************)
C1_ExplicitNameReturned ==
  (Resolved /\ IsMulti /\ call.network_name # None /\ HasKey(Networks, call.network_name))
    => Out = Return(<<call.network_name, Lookup(Networks, call.network_name)>>)

(***************************************************************************)
(* C2 as stated.  On every configuration, legacy or multi-profile, an      *)
(* explicit name (a non-empty string) that is not the name of a configured *)
(* profile makes get_network_profile fail.  The one profile of a legacy    *)
(* configuration is named "legacy".                                        *)
(***************************************************************************)
NameConfigured ==
  IF IsMulti THEN HasKey(Networks, call.network_name) ELSE call.network_name = S_legacy

C2_UnknownNameAlwaysFails ==
  (Resolved /\ config_file.state = "json" /\ Truthy(call.network_name) /\ ~NameConfigured)
    => Out.raised

(***************************************************************************)
(* C2 amended.  On a multi-profile configuration, a non-empty explicit     *)
(* name that is not a key of `networks` makes get_network_profile fail     *)
(* with ValueError: no profile is returned.                                *)
(***************************************************************************)
C2_UnknownNameFailsOnMulti ==
  (Resolved /\ IsMulti /\ Truthy(call.network_name) /\ ~HasKey(Networks, call.network_name))
    => Out = Raise("ValueError")

C2_Witness ==
  /\ Resolved /\ IsMulti /\ Len(Networks) = 2
  /\ call.network_name = S_ghost
  /\ DefaultExists
  /\ Out.raised

(***************************************************************************)
(* C3.  On a multi-profile configuration, with no explicit name,           *)
(* auto_detect true and the detector returning an SSID s (a non-empty      *)
(* string) that is the ssid of at least one profile, the result is the     *)
(* first profile in insertion order whose ssid is s, also when             *)
(* default_network names another existing profile.                         *)
(***************************************************************************)
C3_FirstSsidMatchWins ==
  (Resolved /\ IsMulti /\ call.network_name = None /\ call.auto_detect
     /\ Truthy(DetSsid) /\ SsidMatches(DetSsid) # {})
    => LET m == Least(SsidMatches(DetSsid))
       IN  Out = Return(<<Networks[m].k, Networks[m].v>>)

C3_Witness ==
  /\ Resolved /\ IsMulti /\ call.network_name = None /\ call.auto_detect
  /\ Truthy(DetSsid) /\ SsidMatches(DetSsid) = {1, 2}
  /\ DefaultExists /\ Cfg["default_network"] = Networks[2].k
  /\ ~Out.raised /\ Out.value[1] = Networks[1].k

(***************************************************************************)
(* C4.  On a multi-profile configuration whose default_network names an    *)
(* existing profile, with no explicit name and SSID matching selecting     *)
(* nothing, the result is (default_network, networks[default_network]).    *)
(***************************************************************************)
C4_DefaultWhenNothingMatched ==
  (Resolved /\ IsMulti /\ call.network_name = None /\ DefaultExists /\ NothingMatched)
    => Out = Return(<<Cfg["default_network"], Lookup(Networks, Cfg["default_network"])>>)

C4_Witness ==
  /\ Resolved /\ IsMulti /\ call.network_name = None /\ call.auto_detect
  /\ Len(Networks) = 2 /\ DefaultExists /\ Cfg["default_network"] = Networks[2].k
  /\ Truthy(DetSsid) /\ SsidMatches(DetSsid) = {}
  /\ SsidMatches(SsidA) # {}
  /\ ~Out.raised /\ Out.value[1] = Networks[2].k

(***************************************************************************)
(* C5.  On a multi-profile configuration with a non-empty `networks`, with *)
(* no explicit name, SSID matching selecting nothing, and default_network  *)
(* absent or naming no profile, the result is the first profile in         *)
(* insertion order.                                                        *)
(***************************************************************************)
C5_FirstWhenNoDefault ==
  (Resolved /\ IsMulti /\ Len(Networks) > 0 /\ call.network_name = None
     /\ NothingMatched /\ ~DefaultExists)
    => Out = Return(<<Networks[1].k, Networks[1].v>>)

C5_Witness ==
  /\ Resolved /\ IsMulti /\ Len(Networks) = 2 /\ call.network_name = None
  /\ call.auto_detect /\ DetSsid = None
  /\ "default_network" \in DOMAIN Cfg /\ Cfg["default_network"] = S_ghost
  /\ ~Out.raised /\ Out.value[1] = Networks[1].k

(***************************************************************************)
(* C6.  On a legacy configuration get_network_profile fails when one of    *)
(* wifi_url, username, password is missing, and returns the name "legacy"  *)
(* when all three are there.                                               *)
(***************************************************************************)
C6_LegacyRequiredFields ==
  (Resolved /\ IsLegacy)
    => IF LegacyComplete
       THEN ~Out.raised /\ Out.value[1] = S_legacy
       ELSE Out = Raise("KeyError")

C6_Witness ==
  /\ Resolved /\ IsLegacy
  /\ DOMAIN Cfg = {"wifi_url", "username", "ssid"}
  /\ Out.raised

(***************************************************************************)
(* C7.  On a complete legacy configuration every call, whatever its        *)
(* explicit name and auto_detect, returns "legacy" with the profile made   *)
(* of the top-level wifi_url, username and password, the top-level ssid or *)
(* "Unknown", and the top-level product_type or "0".                       *)
(***************************************************************************)
C7_LegacyProfile ==
  (Resolved /\ IsLegacy /\ LegacyComplete)
    => /\ ~Out.raised
       /\ Out.value[1] = S_legacy
       /\ Out.value[2]["wifi_url"] = Cfg["wifi_url"]
       /\ Out.value[2]["username"] = Cfg["username"]
       /\ Out.value[2]["password"] = Cfg["password"]
       /\ Out.value[2]["ssid"] = (IF "ssid" \in DOMAIN Cfg THEN Cfg["ssid"] ELSE S_Unknown)
       /\ Out.value[2]["product_type"] =
            (IF "product_type" \in DOMAIN Cfg THEN Cfg["product_type"] ELSE S_0)

C7_Witness ==
  /\ Resolved /\ IsLegacy
  /\ DOMAIN Cfg = {"wifi_url", "username", "password"}
  /\ call.network_name = S_ghost /\ ~call.auto_detect
  /\ ~Out.raised /\ Out.value[2]["ssid"] = S_Unknown

(***************************************************************************)
(* C8.  On a multi-profile configuration with a non-empty `networks` and   *)
(* no explicit name, get_network_profile succeeds whatever the detector    *)
(* does, and returns a key of `networks` with the profile under that key.  *)
(***************************************************************************)
C8_DetectionNeverFailsResolution ==
  (Resolved /\ IsMulti /\ Len(Networks) > 0 /\ call.network_name = None)
    => /\ ~Out.raised
       /\ HasKey(Networks, Out.value[1])
       /\ Out.value[2] = Lookup(Networks, Out.value[1])

\* the detector was asked, its tools were run and none gave an SSID
C8_Witness ==
  /\ Resolved /\ IsMulti /\ Len(Networks) > 0 /\ call.network_name = None
  /\ call.auto_detect
  /\ Len(call.res.detections) = 1
  /\ Len(call.res.detections[1].cmds) = 3
  /\ call.res.detections[1].out = Return(None)
  /\ ~Out.raised

(***************************************************************************)
(* C9.  get_current_ssid never raises: on every platform and for every     *)
(* outcome of the external commands it returns a str or None.              *)
(***************************************************************************)
C9_DetectorNeverRaises ==
  call.op = "get_current_ssid"
    => /\ ~call.res.out.raised
       /\ \/ call.res.out.value = None
          \/ \A i \in 1..Len(call.res.out.value) : call.res.out.value[i] # "None"

\* every Linux tool is missing or fails, and the call still returns
C9_Witness ==
  /\ call.op = "get_current_ssid" /\ platform = "linux"
  /\ call.env["iwgetid"].status = "missing"
  /\ call.env["nmcli"].status = "failed"
  /\ call.env["iwconfig"].status = "missing"
  /\ call.res.out = Return(None)

(***************************************************************************)
(* C10 as stated.  list_networks returns exactly one entry, keyed          *)
(* "legacy", on every legacy configuration, and the `networks` mapping     *)
(* itself on a multi-profile configuration.                                *)
(***************************************************************************)
C10_ListNetworksShape ==
  call.op = "list_networks"
    => /\ IsLegacy => (Len(call.res.value) = 1 /\ call.res.value[1].k = S_legacy)
       /\ IsMulti => call.res.value = Networks

(***************************************************************************)
(* C10 amended.  list_networks returns exactly one entry, keyed "legacy",  *)
(* on a legacy configuration that has wifi_url, the empty mapping on a     *)
(* legacy configuration without wifi_url, and the `networks` mapping       *)
(* itself on a multi-profile configuration.                                *)
(***************************************************************************)
C10_ListNetworksShapeWithUrl ==
  call.op = "list_networks"
    => /\ (IsLegacy /\ "wifi_url" \in DOMAIN Cfg)
            => (Len(call.res.value) = 1 /\ call.res.value[1].k = S_legacy)
       /\ (IsLegacy /\ "wifi_url" \notin DOMAIN Cfg) => call.res.value = <<>>
       /\ IsMulti => call.res.value = Networks

C10_Witness ==
  /\ call.op = "list_networks" /\ IsLegacy
  /\ DOMAIN Cfg = {"wifi_url", "ssid"}
  /\ Len(call.res.value) = 1

(***************************************************************************)
(* C11.  list_networks never raises: when the file is missing, is not      *)
(* JSON, or is a legacy configuration without wifi_url, it returns the     *)
(* empty mapping.                                                          *)
(***************************************************************************)
C11_ListNetworksNeverRaises ==
  call.op = "list_networks"
    => /\ ~call.res.raised
       /\ (\/ config_file.state = "missing"
           \/ config_file.state = "invalid"
           \/ (IsLegacy /\ "wifi_url" \notin DOMAIN Cfg))
            => call.res.value = <<>>

C11_Witness ==
  /\ call.op = "list_networks"
  /\ config_file.state = "missing"
  /\ call.res = Return(<<>>)

(***************************************************************************)
(* C12.  get_available_networks mirrors list_networks: on a multi-profile  *)
(* configuration, and when the configuration cannot be loaded, it returns  *)
(* the keys of the mapping list_networks returns on the same file, in the  *)
(* same order; on a legacy configuration it returns ["default"].           *)
(***************************************************************************)
C12_AvailableMirrorsList ==
  call.op = "get_available_networks"
    => /\ ~call.res.raised
       /\ (IsMulti \/ config_file.state # "json")
            => call.res.value = Keys(list_networks(config_file).value)
       /\ IsLegacy => call.res.value = <<S_default>>

C12_Witness ==
  /\ call.op = "get_available_networks"
  /\ IsMulti /\ Len(Networks) = 2
  /\ call.res.value = <<Networks[1].k, Networks[2].k>>

(***************************************************************************)
(* C13.  On Linux the mechanisms run in the order iwgetid, nmcli,          *)
(* iwconfig, each at most once; a mechanism that raises or returns nothing *)
(* is skipped and the next one runs; the result is the SSID of the first   *)
(* mechanism that returns a non-empty one, and nothing runs after it.      *)
(***************************************************************************)
\* the j-th mechanism returns a non-empty SSID in the environment of the call
MechanismSucceeds(j) ==
  LET r == LinuxMethod(LinuxMethods[j], call.env)
  IN  ~r.raised /\ Truthy(r.value)

C13_LinuxMechanismOrder ==
  (call.op = "get_current_ssid" /\ platform = "linux")
    => LET n == Len(call.res.cmds)
       IN  /\ n \in 1..Len(LinuxMethods)
           /\ call.res.cmds = SubSeq(LinuxMethods, 1, n)
           /\ \A j \in 1..(n - 1) : ~MechanismSucceeds(j)
           /\ IF MechanismSucceeds(n)
              THEN call.res.out = Return(LinuxMethod(LinuxMethods[n], call.env).value)
              ELSE n = Len(LinuxMethods) /\ call.res.out = Return(None)

\* iwgetid is not installed, nmcli answers, iwconfig is never run
C13_Witness ==
  /\ call.op = "get_current_ssid" /\ platform = "linux"
  /\ call.env["iwgetid"].status = "missing"
  /\ call.env["nmcli"] = [status |-> "ok", stdout |-> N_active]
  /\ call.env["iwconfig"].status = "ok"
  /\ call.res = [out |-> Return(SsidA), cmds |-> <<"iwgetid", "nmcli">>]

(***************************************************************************)
(* C14.  On macOS, whenever networksetup yields no SSID (its output lacks  *)
(* the marker, carries the not-associated message, or the command fails),  *)
(* the airport utility is run as a fallback, and the value of the SSID:    *)
(* field of its output is returned when that field is there.  The code     *)
(* returns None without running airport when networksetup fails, and takes *)
(* the first line that contains the substring SSID:, which a BSSID: line   *)
(* does too.                                                               *)
(***************************************************************************)
PrimaryYieldsNoSsid ==
  LET primary == call.env["networksetup"]
      text == Strip(SplitLast(primary.stdout, S_Current_WiFi_Network))
  IN  \/ primary.status # "ok"
      \/ ~Contains(S_Current_WiFi_Network, primary.stdout)
      \/ text = S_not_associated
      \/ text = <<>>

\* the lines of an airport output that are an SSID: field
SsidFieldLines(stdout) ==
  LET lines == Split(stdout, <<"\n">>)
  IN  {i \in 1..Len(lines) : StartsWithAt(S_SSID_colon, Strip(lines[i]), 1)}

\* the value of the first SSID: field
SsidFieldValue(stdout) ==
  LET lines == Split(stdout, <<"\n">>)
  IN  Strip(From(Strip(lines[Least(SsidFieldLines(stdout))]), Len(S_SSID_colon) + 1))

C14_MacFallback ==
  (call.op = "get_current_ssid" /\ platform = "darwin" /\ PrimaryYieldsNoSsid)
    => /\ call.res.cmds = <<"networksetup", "airport">>
       /\ (call.env["airport"].status = "ok"
             /\ SsidFieldLines(call.env["airport"].stdout) # {})
            => call.res.out = Return(SsidFieldValue(call.env["airport"].stdout))

(***************************************************************************)
(* C15.  On Windows the result is determined by the output of              *)
(* `netsh wlan show interfaces` alone: the trimmed value after the colon   *)
(* of the first SSID line that is not a BSSID line, and None only when     *)
(* there is no such line or that command fails.  The code runs             *)
(* `netsh wlan show profiles` first and returns None when it fails, and    *)
(* drops an SSID line whose value contains the text BSSID.                 *)
(***************************************************************************)
\* line is an SSID field with a value: SSID, optional blanks, a colon, text
IsSsidField(line) ==
  LET l == Strip(line)
      c == Find(<<":">>, l)
  IN  /\ StartsWithAt(S_SSID, l, 1)
      /\ c > Len(S_SSID)
      /\ \A j \in (Len(S_SSID) + 1)..(c - 1) : l[j] \in Whitespace
      /\ Strip(From(l, c + 1)) # <<>>

WinSsidLines(stdout) ==
  LET lines == Split(stdout, <<"\n">>)
  IN  {i \in 1..Len(lines) : IsSsidField(lines[i])}

WinSsidValue(stdout) ==
  LET l == Strip(Split(stdout, <<"\n">>)[Least(WinSsidLines(stdout))])
  IN  Strip(From(l, Find(<<":">>, l) + 1))

C15_WindowsInterfacesOnly ==
  (call.op = "get_current_ssid" /\ platform = "windows")
    => LET interfaces == call.env["netsh_interfaces"]
       IN  call.res.out =
             IF interfaces.status = "ok" /\ WinSsidLines(interfaces.stdout) # {}
             THEN Return(WinSsidValue(interfaces.stdout))
             ELSE Return(None)

(***************************************************************************)
(* C16.  The iwconfig mechanism returns the text between the quotes of a   *)
(* line with a quoted ESSID field, without the quotes, and None when the   *)
(* only ESSID line is ESSID:off/any or no line has an ESSID field.         *)
(***************************************************************************)
Quote == <<"\"">>

\* a line with ESSID:, an opening quote and a closing quote
HasQuotedEssid(line) ==
  \E i \in 1..Len(line) :
    /\ StartsWithAt(S_ESSID_colon \o Quote, line, i)
    /\ Contains(Quote, From(line, i + Len(S_ESSID_colon) + 1))

C16_IwconfigEssid ==
  (call.op = "linux_iwconfig" /\ call.env["iwconfig"].status = "ok")
    => LET stdout == call.env["iwconfig"].stdout
           lines  == Split(stdout, <<"\n">>)
       IN  /\ ~call.res.raised
           /\ call.res.value = None <=> \A i \in 1..Len(lines) : ~HasQuotedEssid(lines[i])
           /\ call.res.value # None
                => /\ Contains(S_ESSID_colon \o Quote \o call.res.value \o Quote, stdout)
                   /\ ~Contains(Quote, call.res.value)
           /\ stdout = I_essid => call.res.value = SsidB
           /\ stdout = I_off => call.res.value = None
           /\ stdout = I_none => call.res.value = None

C16_Witness ==
  /\ call.op = "linux_iwconfig"
  /\ call.env["iwconfig"] = [status |-> "ok", stdout |-> I_essid]
  /\ call.res = Return(SsidB)

(***************************************************************************)
(* C17.  Under every interleaving of resolution calls, list calls and a    *)
(* save_config, no resolution or list call sees a partly written           *)
(* configuration: its result is the one for the version before the write   *)
(* or for the version after it.  save_config truncates the file before it  *)
(* writes, so a call between the two steps reads an empty file.            *)
(***************************************************************************)
\* what the call recorded in c gives on the file version f
ResultOn(c, f) ==
  IF c.op = "list_networks" THEN list_networks(f)
  ELSE get_network_profile(f, c.network_name, c.auto_detect, c.det)

C17_NoPartialConfigObserved ==
  [][(call' # call /\ call'.op \in {"get_network_profile", "list_networks"})
       => call'.res \in {ResultOn(call', save.old), ResultOn(call', save.new)}]_vars

(***************************************************************************)
(* C18.  The resolver is stateless: a get_network_profile, list_networks   *)
(* or get_available_networks call changes neither the stored               *)
(* configuration nor anything else a later call reads, and its result is   *)
(* drawn from the configuration stored when it is made, so a change of the *)
(* configuration between two calls shows in the second.                    *)
(***************************************************************************)
\* the outcome recorded in c is one the file f accounts for
DrawnFrom(c, f) ==
  LET res == IF c.op = "get_network_profile" THEN c.res.out ELSE c.res
      cfg == f.json
  IN  CASE f.state = "missing" ->
             IF c.op = "get_network_profile"
             THEN res = Raise("FileNotFoundError") ELSE res = Return(<<>>)
        [] f.state = "invalid" ->
             IF c.op = "get_network_profile"
             THEN res = Raise("JSONDecodeError") ELSE res = Return(<<>>)
        [] f.state = "json" /\ "networks" \notin DOMAIN cfg ->
             CASE c.op = "get_network_profile" ->
                    res.raised \/ (/\ res.value[1] = S_legacy
                                   /\ res.value[2]["wifi_url"] = cfg["wifi_url"]
                                   /\ res.value[2]["username"] = cfg["username"]
                                   /\ res.value[2]["password"] = cfg["password"])
               [] c.op = "list_networks" ->
                    res.value = <<>> \/ res.value[1].v["wifi_url"] = cfg["wifi_url"]
               [] OTHER -> res = Return(<<S_default>>)
        [] OTHER ->
             CASE c.op = "get_network_profile" ->
                    res.raised \/ (/\ HasKey(cfg["networks"], res.value[1])
                                   /\ res.value[2] = Lookup(cfg["networks"], res.value[1]))
               [] c.op = "list_networks" -> res = Return(cfg["networks"])
               [] OTHER -> res = Return(Keys(cfg["networks"]))

C18_ResolverStateless ==
  [][call' # call
       => /\ config_file' = config_file
          /\ platform' = platform
          /\ save' = save
          /\ DrawnFrom(call', config_file)]_vars

\* the file was rewritten and the call made after it lists the new profiles
C18_Witness ==
  /\ save.pc = "idle" /\ save.old.state = "json" /\ save.old # save.new
  /\ config_file = save.new /\ IsMulti
  /\ call.op = "list_networks"
  /\ call.res = Return(Networks)
  /\ call.res # list_networks(save.old)

(***************************************************************************)
(* C19 as stated.  Within one get_network_profile call the detector is     *)
(* invoked at most once, and never when the configuration is legacy, when  *)
(* an explicit name is given, when auto_detect is false, or when the call  *)
(* fails.                                                                  *)
(***************************************************************************)
DetectorInvocations == Len(call.res.detections)

C19_DetectorInvocation ==
  Resolved
    => /\ DetectorInvocations <= 1
       /\ (\/ config_file.state # "json"
           \/ IsLegacy
           \/ Truthy(call.network_name)
           \/ ~call.auto_detect
           \/ Out.raised)
            => DetectorInvocations = 0

(***************************************************************************)
(* C19 amended.  Within one get_network_profile call the detector is       *)
(* invoked at most once, and never when the configuration is legacy, when  *)
(* an explicit name is given, when auto_detect is false, or when the call  *)
(* fails for a missing or unreadable file, an incomplete legacy            *)
(* configuration or an unknown name.  A call that fails after asking the   *)
(* detector is one on an empty `networks` mapping, which raises IndexError *)
(* at the default lookup.                                                  *)
(***************************************************************************)
C19_DetectorInvocationExceptEmpty ==
  Resolved
    => /\ DetectorInvocations <= 1
       /\ (\/ config_file.state # "json"
           \/ IsLegacy
           \/ Truthy(call.network_name)
           \/ ~call.auto_detect
           \/ (Out.raised /\ Out.exc # "IndexError"))
            => DetectorInvocations = 0
       /\ (Out.raised /\ DetectorInvocations > 0)
            => (IsMulti /\ Len(Networks) = 0 /\ Out = Raise("IndexError"))

\* the detector ran once, after both checks declined
C19_Witness ==
  /\ Resolved /\ IsMulti /\ Len(Networks) = 2
  /\ call.network_name = None /\ call.auto_detect
  /\ DetectorInvocations = 1
  /\ Len(call.res.detections[1].cmds) > 0
  /\ ~Out.raised

(***************************************************************************)
(* C20.  Every successful get_network_profile call logs the branch that    *)
(* produced its result: legacy, explicit name, SSID match, configured      *)
(* default, or first available; a result chosen because no                 *)
(* default_network is configured is logged as first available.  The code   *)
(* gives config.get the first key as the default of default_network, so    *)
(* without a configured default it logs the configured-default message.    *)
(***************************************************************************)
\* the branch of the resolution order that accounts for the result
BranchTaken ==
  IF IsLegacy THEN "legacy"
  ELSE IF Truthy(call.network_name) THEN "specified"
  ELSE IF call.auto_detect /\ Truthy(DetSsid) /\ SsidMatches(DetSsid) # {} THEN "matching"
  ELSE IF DefaultExists THEN "default"
  ELSE "first_available"

C20_LogNamesBranch ==
  (Resolved /\ config_file.state = "json" /\ ~Out.raised)
    => /\ Len(call.res.log) > 0
       /\ call.res.log[Len(call.res.log)] = BranchTaken

(***************************************************************************)
(* The login attempt.                                                      *)
(***************************************************************************)
LoggedIn == call.op = "wifi_login"

\* the configuration errors of profile resolution: no file, an unknown
\* explicit name, a required field missing
ConfigurationErrors == {"FileNotFoundError", "ValueError", "KeyError"}

\* C21: when profile resolution fails with a configuration error, wifi_login
\* sends no login POST and inserts no row, and the rows of login_attempts
\* are those from before the call.
C21_ConfigurationErrorAborts ==
  (/\ LoggedIn
   /\ call.res.resolved.out.raised
   /\ call.res.resolved.out.exc \in ConfigurationErrors)
    => /\ call.res.posts = <<>>
       /\ call.res.rows = <<>>
       /\ login_attempts = call.before

\* a login naming an unknown profile is aborted, and the stored row stays
C21_Witness ==
  /\ LoggedIn
  /\ call.res.resolved.out.raised
  /\ call.res.resolved.out.exc = "ValueError"
  /\ call.res.posts = <<>>
  /\ login_attempts = <<EarlierRow>>

\* the profile the resolver returned to this login
ResolvedName == call.res.resolved.out.value[1]

ResolvedProfile == call.res.resolved.out.value[2]

\* C22: a wifi_login call that issues the login POST appends exactly one
\* row to login_attempts, with status FAILED when the POST fails with a
\* request error; the row's network_name is the profile name the resolver
\* returned and its network_ssid that profile's ssid, or Unknown when the
\* profile has none.
C22_OneRowPerPost ==
  (LoggedIn /\ call.res.posts # <<>>)
    => /\ Len(call.res.posts) = 1
       /\ Len(login_attempts) = Len(call.before) + 1
       /\ SubSeq(login_attempts, 1, Len(call.before)) = call.before
       /\ LET row == login_attempts[Len(login_attempts)]
          IN  /\ row.network_name = ResolvedName
              /\ row.network_ssid = IF "ssid" \in DOMAIN ResolvedProfile
                                    THEN ResolvedProfile["ssid"]
                                    ELSE S_Unknown
              /\ call.post.raised <=> row.response_status = S_FAILED

\* a POST that failed, for a profile without ssid found by fallback, is logged
C22_Witness ==
  /\ LoggedIn
  /\ call.res.posts # <<>>
  /\ call.post.raised
  /\ call.network_name = None
  /\ IsMulti
  /\ "ssid" \notin DOMAIN ResolvedProfile
  /\ login_attempts = <<EarlierRow, call.res.rows[1]>>
  /\ call.res.rows[1].network_ssid = S_Unknown
  /\ call.res.rows[1].response_status = S_FAILED

(***************************************************************************)
(* C23.  detect_network reports a profile as the matching profile only     *)
(* when that profile's ssid equals the SSID it detected and printed; when  *)
(* no configured profile has that SSID it reports that no matching profile *)
(* was found.  The code reports whatever the resolver returns, and the     *)
(* resolver falls back to the default or first profile, or answers with    *)
(* the legacy profile, when no ssid matches.                               *)
(***************************************************************************)
Detected == call.op = "detect_network"

\* the configured profiles whose ssid is the SSID the command printed
ProfilesOfPrintedSsid ==
  IF IsMulti THEN SsidMatches(call.res.current_ssid) ELSE {}

C23_ReportsOnlySsidMatch ==
  (Detected /\ call.res.current_ssid # None)
    => /\ call.res.report = "found_matching_profile"
            => \E i \in ProfilesOfPrintedSsid : Networks[i].k = call.res.network_name
       /\ ProfilesOfPrintedSsid = {} => call.res.report = "no_matching_profile"

(***************************************************************************)
(* C24.  Every multi-profile configuration the setup wizard writes has a   *)
(* non-empty networks mapping and a default_network that is one of its     *)
(* keys, whatever rounds of answers were typed (repeated names, an empty   *)
(* first name, any answer to the default network prompt); when the         *)
(* multi-network setup is given no profile, the wizard writes a            *)
(* configuration of the legacy shape.                                      *)
(***************************************************************************)
WizardRan == call.op = "run_setup_wizard"

\* the multi-network setup was chosen and the first name typed was empty
NoProfileEntered ==
  /\ WizardRan
  /\ Strip(call.choice) = S_2
  /\ call.entries # <<>>
  /\ Strip(call.entries[1].profile_name) = <<>>

C24_WizardConfigWellFormed ==
  /\ IsMulti => /\ Len(Networks) > 0
                /\ "default_network" \in DOMAIN Cfg
                /\ HasKey(Networks, Cfg["default_network"])
  /\ NoProfileEntered => /\ IsLegacy
                         /\ {"wifi_url", "username", "password"} \subseteq DOMAIN Cfg

\* home, work and home again were entered and an unknown default was typed:
\* two profiles are written, home being the default
C24_Witness ==
  /\ WizardRan
  /\ Len(call.entries) = 3
  /\ Strip(call.entries[1].profile_name) = Strip(call.entries[3].profile_name)
  /\ Strip(call.entries[2].profile_name) = S_work
  /\ call.default_choice = S_ghost
  /\ IsMulti
  /\ Keys(Networks) = <<S_home, S_work>>
  /\ Cfg["default_network"] = S_home

\* an empty first name was typed and a legacy configuration written
C24_WitnessNoProfile == NoProfileEntered /\ IsLegacy

(***************************************************************************)
(* C25.  The detector's result is absent or a non-empty SSID: on no        *)
(* platform and for no command output does get_current_ssid return the     *)
(* empty string.  The airport fallback of macOS returns what follows the   *)
(* SSID marker without testing it, so a line with nothing after the marker *)
(* gives the empty string.                                                 *)
(***************************************************************************)
C25_DetectorNeverEmpty ==
  (call.op = "get_current_ssid" /\ ~call.res.out.raised)
    => call.res.out.value # <<>>

====
